---------------------------- MODULE Spec2Model ----------------------------
(***************************************************************************)
(* Model of src/sthereo.py: the candidate sets built by                    *)
(* QueryDatasetFromJson.__init__, the hard negative mining of              *)
(* QueryDatasetFromJson.__getitem__ with its Negative Cache, and the       *)
(* memoised WholeDatasetFromJson.getPositives.                             *)
(*                                                                         *)
(* Conventions.  Database and query indices are 0-based as in the code;    *)
(* numpy arrays are TLA+ sequences (1-based positions), so a position p    *)
(* of the code is position p+1 here.  Coordinates are 1-dimensional        *)
(* integers and feature vectors are 1-dimensional integers, so every       *)
(* Euclidean distance is the exact integer Abs(a - b).  An exception that  *)
(* a call raises is the value Error.                                       *)
(***************************************************************************)
EXTENDS Integers, Sequences, FiniteSets, TLC

(***************************************************************************)
(* Bounds of the model.                                                    *)
(***************************************************************************)
NumDb == 23          \* database images of the manifest
NumQ == 2            \* query images of the manifest
MaxNNeg == 2         \* nNeg is drawn from 1..MaxNNeg
NNegSample == 22     \* nNegSample, the number of random draws per call
MaxMissed == 1       \* a random draw misses up to this many of the first potential negatives
MaxFeat == 2         \* feature values are 0..MaxFeat
MaxMargin == 4       \* margins are 0..MaxMargin
MaxCalls == 2        \* getPositives calls that are counted
NumWorkers == 2      \* concurrent workers of the multi-worker specification

(***************************************************************************)
(* Program constants.                                                      *)
(***************************************************************************)
OverSample == 10     \* self.nNeg*10, line 221

\* Python values: None, a raised exception, and anything else by its kind
None == [kind |-> "None"]
Error == [kind |-> "Error"]

VARIABLES
    dbStruct,              \* the deserialized manifest
    nNeg, nNegSample, margin,
    nontrivial_positives,  \* per query: ascending sequence of database indices
    queries,               \* ascending sequence of the active query indices
    potential_negatives,   \* per query: ascending sequence of database indices
    negCache,              \* per query: sequence of database indices
    ret,                   \* what the latest __getitem__ returned (None, Error, or a record)
    call,                  \* the locals of the latest __getitem__, and the cache file it read
    lastMined,             \* per query: negatives returned by its latest successful call
    positives, distances,  \* WholeDatasetFromJson memo
    searchCount,           \* radius searches run by getPositives
    gp,                    \* getPositives calls: their number, the first and the latest result
    pc, local              \* multi-worker specification: each worker's position and locals

vars == <<dbStruct, nNeg, nNegSample, margin, nontrivial_positives, queries,
          potential_negatives, negCache, ret, call, lastMined,
          positives, distances, searchCount, gp, pc, local>>

(***************************************************************************)
(* numpy helpers.                                                          *)
(***************************************************************************)
Abs(x) == IF x < 0 THEN -x ELSE x

Min(a, b) == IF a < b THEN a ELSE b

Range(s) == {s[i] : i \in DOMAIN s}

\* the same sequence, held as a tuple (evaluated once, not at every access)
Arr(seq) == seq \o <<>>

\* np.arange(n) as a sequence: 0, 1, ..., n-1
Arange(n) == Arr([i \in 1..n |-> i - 1])

\* the positions of a sequence, ascending
Positions(seq) == Arr([i \in 1..Len(seq) |-> i])

\* np.sort / np.unique of a set of indices: the ascending sequence of its
\* members (every index is below NumDb + NumQ)
SortSet(S) == SelectSeq(Arange(NumDb + NumQ), LAMBDA j : j \in S)

\* seq[-n:], what a slip in the slice of line 232 would take
TakeLast(seq, n) == SubSeq(seq, Len(seq) - Min(n, Len(seq)) + 1, Len(seq))

\* seq[:n]
Take(seq, n) == SubSeq(seq, 1, Min(n, Len(seq)))

\* seq[mask] for a boolean mask of the same length
MaskSelect(seq, mask) ==
    LET at == SelectSeq(Positions(seq), LAMBDA p : mask[p])
    IN Arr([i \in 1..Len(at) |-> seq[at[i]]])

\* np.sum of a boolean mask
CountTrue(mask) == Cardinality({p \in DOMAIN mask : mask[p]})

Reverse(seq) == Arr([i \in 1..Len(seq) |-> seq[Len(seq) + 1 - i]])

(***************************************************************************)
(* sklearn.neighbors.NearestNeighbors.                                     *)
(***************************************************************************)
\* knn.fit(fit); knn.radius_neighbors([x], radius): the (unordered) set of
\* the indices of the fitted points within the radius of x.  The radius is
\* given by its square rSq, so that a radius thr**0.5 is exact.
RadiusNeighbors(fit, x, rSq) ==
    {j \in 0..(Len(fit) - 1) : Abs(fit[j + 1] - x) * Abs(fit[j + 1] - x) <= rSq}

\* The order in which the underlying search returns rows at the same
\* distance: ascending or descending position, chosen by tie.
TieOrder(dist, tie) == IF tie = "asc" THEN Positions(dist) ELSE Reverse(Positions(dist))

\* The positions of the fitted rows, given their distances, nearest first
\* (the distances dv, dv+1, ..., MaxFeat in turn), rows at the same distance
\* in the given order.
RECURSIVE Nearest(_, _, _)
Nearest(dist, order, dv) ==
    IF dv > MaxFeat THEN <<>>
    ELSE SelectSeq(order, LAMBDA p : dist[p] = dv) \o Nearest(dist, order, dv + 1)

\* knn.fit(fit); knn.kneighbors([x], k): distances and positions of the k
\* nearest rows, ascending by distance.  sklearn raises ValueError unless
\* 0 < k <= number of fitted rows (and fit itself raises on no rows).
KNeighbors(fit, x, k, tie) ==
    IF Len(fit) = 0 \/ k < 1 \/ k > Len(fit) THEN Error
    ELSE LET dist == Arr([p \in 1..Len(fit) |-> Abs(fit[p] - x)])
             nn == SubSeq(Nearest(dist, TieOrder(dist, tie), 0), 1, k)
         IN [kind |-> "Neighbors", d |-> Arr([i \in 1..k |-> dist[nn[i]]]), nn |-> nn]

(***************************************************************************)
(* The feature cache (h5feat): one feature row per global index, database  *)
(* rows first, then query rows.                                            *)
(***************************************************************************)
Global == 0..(NumDb + NumQ - 1)

\* h5feat[g]
Row(h5feat, g) == h5feat[g + 1]

\* h5feat[list]
Fetch(h5feat, list) == Arr([i \in 1..Len(list) |-> Row(h5feat, list[i])])

\* The cache files a call may find, each the array of its rows (the row
\* of global index g at position g+1).  The query rows are 0; the database
\* rows grow with the index, cycle through the values from 0 or from 1, or
\* are all far from the queries but one.
FeatTables ==
    { Arr([i \in 1..(NumDb + NumQ) |-> IF i > NumDb THEN 0 ELSE Min(i - 1, MaxFeat)]),
      Arr([i \in 1..(NumDb + NumQ) |-> IF i > NumDb THEN 0 ELSE (i - 1) % (MaxFeat + 1)]),
      Arr([i \in 1..(NumDb + NumQ) |-> IF i > NumDb THEN 0 ELSE i % (MaxFeat + 1)]),
      Arr([i \in 1..(NumDb + NumQ) |->
                IF i > NumDb THEN 0 ELSE IF i - 1 = NumDb \div 2 THEN 0 ELSE MaxFeat]) }

(***************************************************************************)
(* QueryDatasetFromJson.__init__                                           *)
(***************************************************************************)
QIdx(db) == 0..(db.numQ - 1)

\* lines 170-179
NontrivialPositives(db) ==
    [q \in QIdx(db) |->
        SortSet(RadiusNeighbors(db.utmDb, db.utmQ[q + 1], db.nonTrivPosDistSqThr))]

\* line 182 with a comparison that keeps every query
QueriesAll(ntp, db) ==
    SelectSeq(Arange(db.numQ), LAMBDA q : Len(ntp[q]) >= 0)

\* line 182
Queries(ntp, db) ==
    SelectSeq(Arange(db.numQ), LAMBDA q : Len(ntp[q]) > 0)

\* lines 185-187 with the radius of line 175
PotentialPositivesNonTriv(db) ==
    [q \in QIdx(db) |-> RadiusNeighbors(db.utmDb, db.utmQ[q + 1], db.nonTrivPosDistSqThr)]

\* lines 185-187
PotentialPositives(db) ==
    [q \in QIdx(db) |-> RadiusNeighbors(db.utmDb, db.utmQ[q + 1], db.posDistThr * db.posDistThr)]

\* np.setdiff1d(ar1, pos, assume_unique=True): ar1 without the members of pos, in ar1's order
Setdiff1d(ar1, pos) == SelectSeq(ar1, LAMBDA j : j \notin pos)

\* lines 189-192
PotentialNegatives(db) ==
    [q \in QIdx(db) |-> Setdiff1d(Arange(db.numDb), PotentialPositives(db)[q])]

\* line 196
EmptyNegCache(db) == [q \in QIdx(db) |-> <<>>]

(***************************************************************************)
(* The manifests and constructor arguments the model is built from.        *)
(***************************************************************************)
FarAway == NumDb + 1

\* each of the first two queries is at a database image of its own or far
\* from all but the last; any further query is far away
QLayouts ==
    {uq \in [1..NumQ -> 0..FarAway] :
        \A i \in 1..NumQ : uq[i] = FarAway \/ (i <= 2 /\ uq[i] = i - 1)}

\* posDistThr with nonTrivPosDistSqThr: a nontrivial radius of 0 or 1 under
\* a positive radius of 1 or 2, and a positive radius that spans the database
Thresholds == {<<1, 0>>, <<2, 1>>, <<NumDb, 1>>}

Margins == {0, MaxMargin}

\* the database images lie on a line, one unit apart
Manifests ==
    { [numDb |-> NumDb, numQ |-> NumQ, utmDb |-> Arange(NumDb), utmQ |-> uq,
       posDistThr |-> thr[1], nonTrivPosDistSqThr |-> thr[2]] :
      uq \in QLayouts, thr \in Thresholds }

(***************************************************************************)
(* QueryDatasetFromJson.__getitem__                                        *)
(***************************************************************************)
\* d < dPos - m**0.5: line 226 with the margin's sign flipped
LtMinusSqrt(d, dPos, m) ==
    IF dPos - d <= 0 THEN FALSE ELSE (dPos - d) * (dPos - d) > m

\* d < dPos + m**0.5 over the reals, for integers d, dPos and m >= 0
LtPlusSqrt(d, dPos, m) ==
    IF d - dPos < 0 THEN TRUE ELSE (d - dPos) * (d - dPos) < m

\* line 226
ViolatingNeg(dNeg, dPos, m) ==
    Arr([i \in 1..Len(dNeg) |-> LtPlusSqrt(dNeg[i], dPos, m)])

\* line 228 without the test
AbortsNever(violatingNeg) == FALSE

\* line 228
Aborts(violatingNeg) == CountTrue(violatingNeg) < 1

\* line 213 drawing from the whole database
PopulationAll(q) == Arange(dbStruct.numDb)

\* line 213: the population the negatives are drawn from
Population(q) == potential_negatives[q]

\* np.random.choice(pn, n): n draws with replacement; only the set of the
\* values drawn matters (line 214 takes np.unique).  It has between 1 and n
\* members.  The model draws the sets that miss the first m members of pn,
\* m <= MaxMissed, the set that misses the last, and the set of the first alone.
Draws(pn, n) ==
    {S \in {Range(SubSeq(pn, 1 + m, Len(pn))) : m \in 0..MaxMissed}
            \cup {Range(SubSeq(pn, 1, Len(pn) - 1)), {pn[1]}} :
        S # {} /\ Cardinality(S) <= n}

NoCall == [outcome |-> "none", q |-> 0, feat |-> Arr([i \in 1..(NumDb + NumQ) |-> 0]), dPos |-> 0,
           posIndex |-> 0, negSample |-> <<>>, dNeg |-> <<>>, negNN |-> <<>>,
           negIndices |-> <<>>]

\* Lines 199-233 for query q with Negative Cache entry cached, the drawn set
\* draw, the cache file h5feat and the search's tie order.
Mine(q, cached, draw, h5feat, tie) ==
    LET qFeat == Row(h5feat, q + dbStruct.numDb)
        ntp == nontrivial_positives[q]
        posK == KNeighbors(Fetch(h5feat, ntp), qFeat, 1, tie)
        dPos == posK.d[1]
        posIndex == ntp[posK.nn[1]]
        negSample == SortSet(Range(cached) \cup draw)
        negK == KNeighbors(Fetch(h5feat, negSample), qFeat, nNeg * OverSample, tie)
        violatingNeg == ViolatingNeg(negK.d, dPos, margin)
        negNN == Take(MaskSelect(negK.nn, violatingNeg), nNeg)
        negIndices == Arr([i \in 1..Len(negNN) |-> negSample[negNN[i]]])
        base == [NoCall EXCEPT !.q = q, !.feat = h5feat, !.dPos = dPos,
                               !.posIndex = posIndex, !.negSample = negSample]
    IN IF negK.kind = "Error" THEN [base EXCEPT !.outcome = "error"]
       ELSE IF Aborts(violatingNeg)
            THEN [base EXCEPT !.outcome = "skip", !.dNeg = negK.d, !.negNN = negK.nn]
            ELSE [base EXCEPT !.outcome = "ok", !.dNeg = negK.d, !.negNN = negK.nn,
                              !.negIndices = negIndices]

\* lines 199-233 from the draw on; np.random.choice raises ValueError on an
\* empty population
MineFrom(q, cached, draw, h5feat, tie) ==
    IF Population(q) = <<>> THEN [NoCall EXCEPT !.outcome = "error", !.q = q, !.feat = h5feat]
    ELSE Mine(q, cached, draw, h5feat, tie)

\* what np.random.choice can return for q: nothing but an exception on an empty population
DrawsFor(q) == IF Population(q) = <<>> THEN {{}} ELSE Draws(Population(q), nNegSample)

\* line 234 writing every entry
CommitAll(cache, q, negIndices) == [x \in DOMAIN cache |-> negIndices]

\* line 234
Commit(cache, q, negIndices) == [cache EXCEPT ![q] = negIndices]

\* line 255 (an image is named by its index)
Example(c) == [kind |-> "Example", query |-> c.q, positive |-> c.posIndex,
               negatives |-> c.negIndices, indices |-> <<c.q, c.posIndex>> \o c.negIndices]

\* lines 230 and 255, or the exception raised
Returned(c) ==
    IF c.outcome = "ok" THEN Example(c) ELSE IF c.outcome = "skip" THEN None ELSE Error

\* the negatives in a returned index list [index, posIndex] + negIndices
NegativesOf(r) == SubSeq(r.indices, 3, Len(r.indices))

\* lines 228-255
Finish(c) ==
    /\ call' = c
    /\ ret' = Returned(c)
    /\ negCache' = IF c.outcome = "ok" THEN Commit(negCache, c.q, c.negIndices) ELSE negCache
    /\ lastMined' = IF ret'.kind = "Example"
                    THEN [lastMined EXCEPT ![ret'.indices[1]] = NegativesOf(ret')]
                    ELSE lastMined

\* lines 198-255
Getitem(index) ==
    LET q == queries[index + 1] IN
    /\ \E draw \in DrawsFor(q), h5feat \in FeatTables, tie \in {"asc", "desc"} :
            Finish(MineFrom(q, negCache[q], draw, h5feat, tie))
    /\ UNCHANGED <<dbStruct, nNeg, nNegSample, margin, nontrivial_positives, queries,
                   potential_negatives, positives, distances, searchCount, gp, pc, local>>

\* lines 257-258
DatasetLen == Len(queries)

(***************************************************************************)
(* WholeDatasetFromJson.getPositives                                       *)
(***************************************************************************)
\* line 117 without the test
NeedSearchAlways == TRUE

\* line 117
NeedSearch == positives.kind = "None"

\* lines 118-122: the indices and the distances radius_neighbors returns
SearchPositives(db) ==
    [kind |-> "Array",
     val |-> [q \in QIdx(db) |-> RadiusNeighbors(db.utmDb, db.utmQ[q + 1],
                                                 db.posDistThr * db.posDistThr)]]

SearchDistances(db) ==
    [kind |-> "Array",
     val |-> [q \in QIdx(db) |->
                [j \in SearchPositives(db).val[q] |-> Abs(db.utmDb[j + 1] - db.utmQ[q + 1])]]]

\* lines 114-124
GetPositives ==
    /\ gp.calls < MaxCalls
    /\ IF NeedSearch
       THEN /\ positives' = SearchPositives(dbStruct)
            /\ distances' = SearchDistances(dbStruct)
            /\ searchCount' = searchCount + 1
       ELSE UNCHANGED <<positives, distances, searchCount>>
    /\ gp' = [calls |-> gp.calls + 1,
              first |-> IF gp.calls = 0 THEN positives' ELSE gp.first,
              firstDist |-> IF gp.calls = 0 THEN distances' ELSE gp.firstDist,
              latest |-> positives']
    /\ UNCHANGED <<dbStruct, nNeg, nNegSample, margin, nontrivial_positives, queries,
                   potential_negatives, negCache, ret, call, lastMined, pc, local>>

(***************************************************************************)
(* Several workers calling __getitem__ on one dataset instance: a call     *)
(* reads the Negative Cache at line 214 and writes it at line 234.         *)
(***************************************************************************)
Workers == 1..NumWorkers

\* lines 199-233 of worker w; the cache file is not replaced while calls
\* are active, so every worker reads the same one
Begin(w, index) ==
    LET q == queries[index + 1] IN
    /\ pc[w] = "idle"
    /\ \E draw \in DrawsFor(q), h5feat \in FeatTables, tie \in {"asc", "desc"} :
         /\ \A v \in Workers : pc[v] # "idle" => local[v].c.feat = h5feat
         /\ local' = [local EXCEPT ![w] = [c |-> MineFrom(q, negCache[q], draw, h5feat, tie),
                                           draw |-> draw, tie |-> tie]]
    /\ pc' = [pc EXCEPT ![w] = "mined"]
    /\ UNCHANGED <<dbStruct, nNeg, nNegSample, margin, nontrivial_positives, queries,
                   potential_negatives, negCache, ret, call, lastMined,
                   positives, distances, searchCount, gp>>

\* line 234 of worker w (nothing is written by a call that skips or raises)
Write(w) ==
    /\ pc[w] = "mined"
    /\ negCache' = IF local[w].c.outcome = "ok"
                   THEN Commit(negCache, local[w].c.q, local[w].c.negIndices)
                   ELSE negCache
    /\ pc' = [pc EXCEPT ![w] = "done"]
    /\ UNCHANGED <<dbStruct, nNeg, nNegSample, margin, nontrivial_positives, queries,
                   potential_negatives, ret, call, lastMined,
                   positives, distances, searchCount, gp, local>>

(***************************************************************************)
(* Specifications.                                                         *)
(***************************************************************************)
Init ==
    /\ dbStruct \in Manifests
    /\ nNeg \in 1..MaxNNeg
    /\ nNegSample = NNegSample
    /\ margin \in Margins
    /\ nontrivial_positives = NontrivialPositives(dbStruct)
    /\ queries = Queries(nontrivial_positives, dbStruct)
    /\ potential_negatives = PotentialNegatives(dbStruct)
    /\ negCache = EmptyNegCache(dbStruct)
    /\ ret = None
    /\ call = NoCall
    /\ lastMined = [q \in QIdx(dbStruct) |-> <<>>]
    /\ positives = None
    /\ distances = None
    /\ searchCount = 0
    /\ gp = [calls |-> 0, first |-> None, firstDist |-> None, latest |-> None]
    /\ pc = [w \in Workers |-> "idle"]
    /\ local = [w \in Workers |-> [c |-> NoCall, draw |-> {}, tie |-> "asc"]]

\* one dataset instance, one call after the other
Next == \E index \in 0..(DatasetLen - 1) : Getitem(index)

Spec == Init /\ [][Next]_vars

\* a WholeDatasetFromJson instance and its callers
NextWhole == GetPositives

SpecWhole == Init /\ [][NextWhole]_vars

\* one dataset instance shared by the workers, each making one call
NextWorkers ==
    \E w \in Workers :
        \/ \E index \in 0..(DatasetLen - 1) : Begin(w, index)
        \/ Write(w)

SpecWorkers == Init /\ [][NextWorkers]_vars

(***************************************************************************)
(* Properties.                                                             *)
(***************************************************************************)
\* the embedding distance of database image j to the query of call c, read
\* from the cache file the call read
EmbDist(c, j) == Abs(Row(c.feat, j) - Row(c.feat, c.q + dbStruct.numDb))

\* the candidates the search of call c ranked (the 10*nNeg nearest)
Ranked(c) == {c.negSample[c.negNN[i]] : i \in DOMAIN c.negNN}

\* the ranked candidates of call c that pass the test d < dPos + margin^0.5
Violators(c) == {j \in Ranked(c) : LtPlusSqrt(EmbDist(c, j), c.dPos, margin)}

\* the database images within positiveDistanceThreshold of query q
PositiveNeighbourhood(q) ==
    {j \in 0..(dbStruct.numDb - 1) :
        Abs(dbStruct.utmDb[j + 1] - dbStruct.utmQ[q + 1]) <= dbStruct.posDistThr}

\* C1: a mining call on an active query, with a feature cache that holds
\* every row, returns a mined example or None; it never ends in an error.
C1_NeverAnError == ret.kind \in {"None", "Example"}

\* C2: if no ranked candidate of a mining call has a distance below
\* dPos + margin^0.5, the call returns None and leaves the Negative Cache
\* entry of every query as it was.
C2_SkipLeavesCache ==
    [][(call'.outcome \in {"ok", "skip"} /\ Violators(call') = {})
        => (ret'.kind = "None" /\ negCache' = negCache)]_vars

\* a call that skipped for want of a violating candidate, on a query whose
\* Negative Cache entry an earlier call had filled
C2_Witness ==
    /\ call.outcome = "skip"
    /\ Ranked(call) # {}
    /\ Violators(call) = {}
    /\ negCache[call.q] # <<>>

\* C3: the Negative Cache entry of every query is the negative index list
\* its most recent successful call returned, and is empty if no call for it
\* has succeeded; a successful call leaves the other entries alone.
C3_CacheIsLastMined == \A q \in QIdx(dbStruct) : negCache[q] = lastMined[q]

\* a successful call just returned, and another query still holds the
\* negatives an earlier call mined for it
C3_Witness ==
    /\ ret.kind = "Example"
    /\ negCache[ret.query] = ret.negatives
    /\ \E q \in QIdx(dbStruct) : q # ret.query /\ negCache[q] # <<>>

\* the calls of the workers run one after the other, in the given order,
\* from the empty Negative Cache, each with the draw, cache file and tie
\* order it had
RECURSIVE Serial(_, _)
Serial(order, cache) ==
    IF order = <<>> THEN cache
    ELSE LET l == local[Head(order)]
             c == MineFrom(l.c.q, cache[l.c.q], l.draw, l.c.feat, l.tie)
         IN Serial(Tail(order),
                   IF c.outcome = "ok" THEN Commit(cache, c.q, c.negIndices) ELSE cache)

Orders == {o \in [Workers -> Workers] : \A v, w \in Workers : v # w => o[v] # o[w]}

\* C4: when the workers' calls have all finished, the Negative Cache is the
\* one some serial order of the same calls, with the same draws, produces.
C4_NoLostUpdate ==
    (\A w \in Workers : pc[w] = "done")
        => \E o \in Orders : negCache = Serial(o, EmptyNegCache(dbStruct))

\* C5: for every query, active or not, potentialNegatives[q] and the
\* positive-threshold neighbourhood of q are disjoint and together cover
\* every database index exactly once.
C5_Partition ==
    \A q \in QIdx(dbStruct) :
        LET pn == potential_negatives[q] IN
        /\ Range(pn) \cap PositiveNeighbourhood(q) = {}
        /\ Range(pn) \cup PositiveNeighbourhood(q) = 0..(dbStruct.numDb - 1)
        /\ Cardinality(Range(pn)) = Len(pn)

\* a query that is not active, with potential negatives and with positives
\* that are not nontrivial ones
C5_Witness ==
    \E q \in QIdx(dbStruct) :
        /\ q \notin Range(queries)
        /\ potential_negatives[q] # <<>>
        /\ PositiveNeighbourhood(q) # {}

\* C6: activeQueries holds exactly the queries with a nontrivial positive,
\* in ascending order, and the dataset length is their number.
C6_ActiveQueries ==
    LET active == {q \in QIdx(dbStruct) : Len(nontrivial_positives[q]) > 0} IN
    /\ Range(queries) = active
    /\ \A i, j \in DOMAIN queries : i < j => queries[i] < queries[j]
    /\ DatasetLen = Cardinality(active)

\* a manifest with an active query after a query that is not active
C6_Witness ==
    \E q, r \in QIdx(dbStruct) :
        /\ q < r
        /\ q \notin Range(queries)
        /\ r \in Range(queries)
        /\ nontrivial_positives[q] = <<>>

\* C7: a successful call returns the violating candidates among the ranked
\* ones, nearest first, cut to the first nNeg: min(nNeg, number of ranked
\* violators) of them, none nearer being left out.
C7_NearestViolators ==
    call.outcome = "ok" =>
        LET negs == ret.negatives IN
        /\ Cardinality(Ranked(call)) = OverSample * nNeg
        /\ \A j \in Range(call.negSample) \ Ranked(call) : \A r \in Ranked(call) :
                EmbDist(call, r) <= EmbDist(call, j)
        /\ Len(negs) = Min(nNeg, Cardinality(Violators(call)))
        /\ Range(negs) \subseteq Violators(call)
        /\ \A i, j \in DOMAIN negs :
                i < j => negs[i] # negs[j] /\ EmbDist(call, negs[i]) <= EmbDist(call, negs[j])
        /\ \A j \in Violators(call) \ Range(negs) : \A i \in DOMAIN negs :
                EmbDist(call, negs[i]) <= EmbDist(call, j)
        /\ ret.indices = <<call.q, call.posIndex>> \o negs

\* a successful call that returns two negatives, the first nearer than the
\* second, and leaves out further violators
C7_Witness ==
    /\ call.outcome = "ok"
    /\ nNeg = 2
    /\ Len(ret.negatives) = nNeg
    /\ EmbDist(call, ret.negatives[1]) < EmbDist(call, ret.negatives[2])
    /\ Violators(call) \ Range(ret.negatives) # {}

\* the number of ranked distances of call c passing the test with margin m
NumViolating(c, m) == CountTrue(ViolatingNeg(c.dNeg, c.dPos, m))

\* C8: for the ranked distances and the dPos of a call, a larger margin
\* never lets fewer candidates pass the test d < dPos + margin^0.5.
C8_MarginMonotone ==
    call.outcome \in {"ok", "skip"} =>
        \A m1, m2 \in 0..MaxMargin :
            m1 <= m2 => NumViolating(call, m1) <= NumViolating(call, m2)

\* a call whose ranked distances pass in different numbers for three margins
C8_Witness ==
    /\ call.outcome \in {"ok", "skip"}
    /\ \E m1, m2, m3 \in 0..MaxMargin :
            /\ NumViolating(call, m1) < NumViolating(call, m2)
            /\ NumViolating(call, m2) < NumViolating(call, m3)

\* C9: however often getPositives is called, the radius search runs once,
\* on the first call; every call returns what the first returned, and the
\* memoised positives and distances stay what the first call made them.
C9_SearchOnce ==
    /\ searchCount = (IF gp.calls > 0 THEN 1 ELSE 0)
    /\ gp.calls > 0 =>
        /\ gp.latest = gp.first
        /\ positives = gp.first
        /\ distances = gp.firstDist
        /\ gp.first = SearchPositives(dbStruct)

\* getPositives was called more than once, on a manifest with a positive
C9_Witness ==
    /\ gp.calls > 1
    /\ \E q \in QIdx(dbStruct) : gp.latest.val[q] # {}

\* C10: every Negative Cache entry is a duplicate-free list of at most nNeg
\* database indices, all potential negatives of its query; so a returned
\* negative is never within positiveDistanceThreshold of its query.
C10_CacheWithinNegatives ==
    /\ \A q \in QIdx(dbStruct) :
        /\ Cardinality(Range(negCache[q])) = Len(negCache[q])
        /\ Len(negCache[q]) <= nNeg
        /\ Range(negCache[q]) \subseteq Range(potential_negatives[q])
    /\ ret.kind = "Example" =>
        /\ Range(ret.negatives) \subseteq Range(potential_negatives[ret.query])
        /\ Range(ret.negatives) \cap PositiveNeighbourhood(ret.query) = {}

\* a call that succeeded on candidates the cache carried over from an
\* earlier call of the same query
C10_Witness ==
    /\ ret.kind = "Example"
    /\ negCache[ret.query] # <<>>
    /\ \E j \in Range(call.negSample) : j \notin Range(ret.negatives)
    /\ PositiveNeighbourhood(ret.query) # {}

=============================================================================
